---- MODULE Spec2Model ----
(***************************************************************************)
(* Batch drivers of jamesrobertlange/Tattoo-Classifier:                    *)
(*   src/local_app.py          photo pipeline  (process_folder)            *)
(*   src/tattoo_classifier.py  tattoo pipeline (process_folder)            *)
(*                                                                         *)
(* Abstractions.  A path is a number: path i is the i-th file the glob     *)
(* yields; path 0 is an image recorded earlier that is not in the folder.  *)
(* A file's content is the number of its first 8192 bytes (all that        *)
(* get_image_hash reads).  Time is in whole seconds.  The ledger file is   *)
(* a sequence of lines (header or row); the write buffer of the open file  *)
(* object is the sequence of lines written and not yet on disk.            *)
(***************************************************************************)
EXTENDS Integers, Sequences, FiniteSets, TLC

(* ---------------- bounds of the model ---------------- *)
MaxFiles == 3
MaxPrefixes == 2
MaxRuns == 2
MaxFaults == 1
MaxFailures == 1
MaxKills == 1
MaxSlow == 1
MaxLatency == 1
MaxStall == 45
MaxSample == 1
BulkFiles == 16
CrashFiles == 2
MaxLines == 6

(* ---------------- program constants ---------------- *)
RateLimit == 14
Window == 60
Pause == 1
FlushEvery == 10
DefaultDailyLimit == 1000
PhotoFields == 5
TattooFields == 3

NoSample == 0 - 1

(* ---------------- response text and its parsing ---------------- *)
\* A line is a sequence of tokens; a label token is the literal the parser
\* removes ("Category: "), a value token "v<Field>" is the text the service
\* wrote for that field, "ws" is white space, "intro" is any other text.
PhotoLabels == <<"Category: ", "Wedding: ", "People: ", "Location: ", "Description: ">>
TattooLabels == <<"Primary: ", "Secondary: ", "Description: ">>
PhotoValues == <<"vCategory", "vWedding", "vPeople", "vLocation", "vDescription">>
TattooValues == <<"vPrimary", "vSecondary", "vDescription">>

RECURSIVE Remove(_, _)
\* str.replace(label, ''): every occurrence of the label is removed,
\* wherever it stands in the line
Remove(line, label) ==
  IF line = <<>> THEN <<>>
  ELSE IF Head(line) = label THEN Remove(Tail(line), label)
       ELSE <<Head(line)>> \o Remove(Tail(line), label)

RECURSIVE LStrip(_)
LStrip(line) ==
  IF line # <<>> /\ Head(line) = "ws" THEN LStrip(Tail(line)) ELSE line

RECURSIVE RStrip(_)
RStrip(line) ==
  IF line # <<>> /\ line[Len(line)] = "ws"
  THEN RStrip(SubSeq(line, 1, Len(line) - 1)) ELSE line

\* str.strip() of one line
Strip(line) == RStrip(LStrip(line))

IsBlank(line) == Strip(line) = <<>>

RECURSIVE DropLeadingBlank(_)
DropLeadingBlank(lines) ==
  IF lines # <<>> /\ IsBlank(Head(lines)) THEN DropLeadingBlank(Tail(lines)) ELSE lines

RECURSIVE DropTrailingBlank(_)
DropTrailingBlank(lines) ==
  IF lines # <<>> /\ IsBlank(lines[Len(lines)])
  THEN DropTrailingBlank(SubSeq(lines, 1, Len(lines) - 1)) ELSE lines

\* response.text.strip().split('\n'): white space (blank lines included) is
\* cut from both ends of the text, the rest is split at the line breaks; the
\* empty text splits into one empty line
SplitLines(text) ==
  LET t == DropTrailingBlank(DropLeadingBlank(text))
  IN IF t = <<>> THEN << <<>> >>
     ELSE [i \in 1..Len(t) |->
             IF i = 1 THEN LStrip(t[i])
             ELSE IF i = Len(t) THEN RStrip(t[i]) ELSE t[i]]

FieldOf(lines, i, labels) == Strip(Remove(lines[i], labels[i]))

PhotoLoadError ==
  << <<"Error">>, <<"N/A">>, <<"Unknown">>, <<"Unknown">>, <<"Failed to load image">> >>
PhotoProcessError ==
  << <<"Error">>, <<"N/A">>, <<"Unknown">>, <<"Unknown">>, <<"Failed to process">> >>
TattooLoadError == << <<"Error">>, <<"Error">>, <<"Failed to load image">> >>
TattooProcessError == << <<"Error">>, <<"Error">>, <<"Failed to process">> >>

\* (mutant) a response with too few lines is no error: the fields that are
\* missing stay empty
analyze_photo_lenient(decodes, raises, text) ==
  IF ~decodes THEN PhotoLoadError
  ELSE IF raises THEN PhotoProcessError
  ELSE LET lines == SplitLines(text)
       IN [i \in 1..PhotoFields |->
             IF i <= Len(lines) THEN FieldOf(lines, i, PhotoLabels) ELSE <<>>]

\* analyze_photo: decodes is whether encode_image returns an image, raises
\* whether generate_content/resolve raises, text the response text
analyze_photo(decodes, raises, text) ==
  IF ~decodes THEN PhotoLoadError
  ELSE IF raises THEN PhotoProcessError
  ELSE LET lines == SplitLines(text)
       IN IF Len(lines) < PhotoFields THEN PhotoProcessError
          ELSE [i \in 1..PhotoFields |-> FieldOf(lines, i, PhotoLabels)]

analyze_tattoo(decodes, raises, text) ==
  IF ~decodes THEN TattooLoadError
  ELSE IF raises THEN TattooProcessError
  ELSE LET lines == SplitLines(text)
       IN IF Len(lines) < TattooFields THEN TattooProcessError
          ELSE [i \in 1..TattooFields |-> FieldOf(lines, i, TattooLabels)]

Labels(p) == IF p = "photo" THEN PhotoLabels ELSE TattooLabels
Values(p) == IF p = "photo" THEN PhotoValues ELSE TattooValues
Analyze(p, decodes, raises, text) ==
  IF p = "photo" THEN analyze_photo(decodes, raises, text)
  ELSE analyze_tattoo(decodes, raises, text)
SentinelRecords(p) ==
  IF p = "photo" THEN {PhotoLoadError, PhotoProcessError}
  ELSE {TattooLoadError, TattooProcessError}

\* the response in the format the prompt asks for
GoodResponse(p) == [i \in 1..Len(Labels(p)) |-> <<Labels(p)[i], Values(p)[i]>>]
\* a response cut short after its first line
ShortResponse(p) == <<GoodResponse(p)[1]>>
DriverResponses(p) == {GoodResponse(p), ShortResponse(p)}

(* ---------------- content hash and ledger ---------------- *)
NoHash == <<"none", 0>>
Md5(prefix) == <<"md5", prefix>>
\* (mutant) the identity of an image is its path, never its content
get_image_hash_of_path(path, prefix, readable) == <<"path", path>>

\* get_image_hash: the digest of the first 8192 bytes, or the path itself
\* when the file cannot be opened or read
get_image_hash(path, prefix, readable) ==
  IF readable THEN Md5(prefix) ELSE <<"path", path>>

HeaderLine == [kind |-> "header", path |-> 0 - 1, hash |-> NoHash, attrs |-> <<>>]
RowLine(path, hash, attrs) == [kind |-> "row", path |-> path, hash |-> hash, attrs |-> attrs]

\* pd.read_csv followed by the column lookups: the first line of the file
\* is taken as the header; an empty file raises EmptyDataError and a file
\* whose first line is a data row has no 'Image Path'/'Image Hash' column
CsvReadable(lines) == lines # <<>> /\ lines[1].kind = "header"

\* (mutant) the paths of the ledger are not collected
get_processed_images_no_paths(ex, lines) ==
  IF ~ex \/ ~CsvReadable(lines)
  THEN [hashes |-> {}, paths |-> {}]
  ELSE [hashes |-> {lines[i].hash : i \in 2..Len(lines)}, paths |-> {}]

\* (mutant) the rows of a file without header are read as well
get_processed_images_headerless(ex, lines) ==
  IF ~ex
  THEN [hashes |-> {}, paths |-> {}]
  ELSE [hashes |-> {lines[i].hash : i \in {j \in 1..Len(lines) : lines[j].kind = "row"}},
        paths |-> {lines[i].path : i \in {j \in 1..Len(lines) : lines[j].kind = "row"}}]

get_processed_images(ex, lines) ==
  IF ~ex \/ ~CsvReadable(lines)
  THEN [hashes |-> {}, paths |-> {}]
  ELSE [hashes |-> {lines[i].hash : i \in 2..Len(lines)},
        paths |-> {lines[i].path : i \in 2..Len(lines)}]

RowsOf(lines) == SelectSeq(lines, LAMBDA l : l.kind = "row")
Distinct(s) == \A i, j \in 1..Len(s) : i # j => s[i] # s[j]
PathsSeq(lines) == [i \in 1..Len(RowsOf(lines)) |-> RowsOf(lines)[i].path]
HashesSeq(lines) == [i \in 1..Len(RowsOf(lines)) |-> RowsOf(lines)[i].hash]

(* ---------------- state ---------------- *)
VARIABLES
  pipeline,              \* "photo" (local_app.py) or "tattoo" (tattoo_classifier.py)
  folder,                \* path -> content (first 8192 bytes) of the files under folder_path
  daily_limit,           \* process_folder's daily_limit
  sample_size,           \* process_folder's sample_size (NoSample is None)
  faults, failures, slow, kills, runs,
                         \* what the environment may still do: exceptions outside the
                         \* classification, failed classifications, slow operations,
                         \* kills of the process, runs of the driver
  fileExists, disk,      \* the ledger file output_csv: whether it exists, its lines
  buf,                   \* lines written to the open file f and not yet on disk
  pc,                    \* where the driver is: "idle" when no run is in progress
  processed_hashes, processed_paths,
  all_images, idx,       \* the candidate list and the position of the for loop in it
  image_path, image_hash,
  total_processed, requests_this_minute, daily_requests, minute_start,
  now,                   \* time.time()
  response, record,      \* the text last parsed and the attributes last returned
  hist                   \* the history of the run, for stating the properties

progVars == <<processed_hashes, processed_paths, all_images, idx, image_path,
              image_hash, total_processed, requests_this_minute, daily_requests,
              minute_start>>
inputVars == <<pipeline, folder, daily_limit, sample_size>>
vars == <<inputVars, faults, failures, slow, kills, runs, fileExists, disk, buf, pc,
          progVars, now, response, record, hist>>

NoRecord == <<>>
FreshHist ==
  [runNo |-> 0, stop |-> "none", startExists |-> FALSE, startLedger |-> <<>>,
   sampled |-> FALSE, pathSkipped |-> {}, hashSkipped |-> {}, hashErrs |-> {},
   writeErrs |-> 0, appended |-> <<>>, calls |-> <<>>, waits |-> <<>>,
   prevStop |-> "none", prevSampled |-> FALSE, prevReadable |-> FALSE,
   prevWriteErrs |-> 0, everKilled |-> FALSE, setupFailed |-> FALSE,
   printErrs |-> 0, initOK |-> TRUE,
   lastOutcome |-> [decodes |-> TRUE, raises |-> FALSE, text |-> <<>>]]

IdleLocals ==
  /\ pc = "idle"
  /\ processed_hashes = {} /\ processed_paths = {}
  /\ all_images = <<>> /\ idx = 1
  /\ image_path = 0 /\ image_hash = NoHash
  /\ total_processed = 0 /\ requests_this_minute = 0 /\ daily_requests = 0
  /\ minute_start = 0 /\ now = 0
  /\ response = <<>> /\ record = NoRecord
  /\ buf = <<>>
  /\ hist = [FreshHist EXCEPT
               !.initOK = ~fileExists \/ (CsvReadable(disk) /\ Distinct(PathsSeq(disk)))]

\* the ledgers a first run may find: none, an empty file, a header alone,
\* and a header with the row of an image recorded under path 0
InitialLedgers(p) ==
  { [exists |-> FALSE, lines |-> <<>>],
    [exists |-> TRUE, lines |-> <<>>],
    [exists |-> TRUE, lines |-> <<HeaderLine>>],
    [exists |-> TRUE,
     lines |-> <<HeaderLine,
                 RowLine(0, IF p = "photo" THEN Md5(1) ELSE NoHash,
                         Analyze(p, TRUE, FALSE, GoodResponse(p)))>>] }

Init ==
  /\ pipeline \in {"photo", "tattoo"}
  /\ folder \in [1..MaxFiles -> 1..MaxPrefixes]
  /\ daily_limit \in (IF pipeline = "photo" THEN {1, DefaultDailyLimit}
                      ELSE {DefaultDailyLimit})
  /\ sample_size \in (IF pipeline = "photo" THEN {NoSample} \cup 1..MaxSample
                      ELSE {NoSample})
  /\ faults = MaxFaults /\ failures = MaxFailures /\ slow = 0 /\ kills = 0
  /\ runs = MaxRuns
  /\ \E l \in InitialLedgers(pipeline) : fileExists = l.exists /\ disk = l.lines
  /\ IdleLocals

(* ---------------- helpers of the actions ---------------- *)
\* (mutant) the scan yields every file twice
Glob_Twice ==
  [i \in 1..Cardinality(DOMAIN folder) |-> i] \o [i \in 1..Cardinality(DOMAIN folder) |-> i]

\* the files the glob yields, in its order
Glob == [i \in 1..Cardinality(DOMAIN folder) |-> i]

\* random.sample(all, k): k distinct elements in any order
Samples(all, k) ==
  {s \in [1..k -> {all[i] : i \in 1..Len(all)}] : Distinct(s)}

NewRun(h, ex, lines) ==
  [FreshHist EXCEPT !.runNo = h.runNo + 1, !.stop = "running",
                    !.startExists = ex, !.startLedger = lines,
                    !.prevStop = h.stop, !.prevSampled = h.sampled,
                    !.prevReadable = (~h.startExists \/ CsvReadable(h.startLedger)),
                    !.prevWriteErrs = h.writeErrs,
                    !.everKilled = h.everKilled, !.initOK = h.initOK]

\* (mutant) the file is left unclosed: what is buffered never reaches the disk
CloseFile_Unflushed(reason) ==
  /\ disk' = disk
  /\ buf' = <<>>
  /\ pc' = "idle"
  /\ hist' = [hist EXCEPT !.stop = reason]

\* (mutant) the file was opened for writing, not for appending: what it held
\* is replaced by what the run wrote
CloseFile_Truncating(reason) ==
  /\ disk' = buf
  /\ buf' = <<>>
  /\ pc' = "idle"
  /\ hist' = [hist EXCEPT !.stop = reason]

\* leaving the with block closes f: what is buffered reaches the disk
CloseFile(reason) ==
  /\ disk' = disk \o buf
  /\ buf' = <<>>
  /\ pc' = "idle"
  /\ hist' = [hist EXCEPT !.stop = reason]

\* what a slow operation may take: up to MaxLatency seconds, or a stall of
\* about MaxStall seconds
Latencies == IF slow > 0 THEN (0..MaxLatency) \cup {MaxStall, MaxStall + 1} ELSE {0}
SlowAfter(lat) == IF lat > 0 THEN slow - 1 ELSE slow

(* ---------------- the photo pipeline: local_app.process_folder ---------------- *)
\* (mutant) the client is set up after the ledger has been opened
SetupFails_AfterOpen ==
  /\ pc = "idle" /\ runs > 0 /\ faults > 0
  /\ runs' = runs - 1
  /\ faults' = faults - 1
  /\ fileExists' = TRUE
  /\ disk' = IF fileExists THEN disk ELSE <<HeaderLine>>
  /\ hist' = [NewRun(hist, fileExists, disk) EXCEPT !.stop = "setup", !.setupFailed = TRUE]
  /\ UNCHANGED <<inputVars, failures, slow, kills, buf, pc, progVars, now, response, record>>

\* setup_gemini raises (no GOOGLE_API_KEY): the outer except prints and the
\* run is over before the ledger is read or opened
SetupFails ==
  /\ pc = "idle" /\ runs > 0 /\ faults > 0
  /\ runs' = runs - 1
  /\ faults' = faults - 1
  /\ hist' = [NewRun(hist, fileExists, disk) EXCEPT !.stop = "setup", !.setupFailed = TRUE]
  /\ UNCHANGED <<inputVars, failures, slow, kills, fileExists, disk, buf, pc, progVars, now,
                 response, record>>

\* setup, get_processed_images, open (header when the file is new), the scan
\* with the skip by path, the random sample, the counters
Start ==
  /\ pipeline = "photo" /\ pc = "idle" /\ runs > 0
  /\ LET seen == get_processed_images(fileExists, disk)
         found == SelectSeq(Glob, LAMBDA p : p \notin seen.paths)
         sampling == sample_size # NoSample /\ sample_size < Len(found)
     IN \E chosen \in (IF sampling THEN Samples(found, sample_size) ELSE {found}) :
          /\ processed_hashes' = seen.hashes
          /\ processed_paths' = seen.paths
          /\ all_images' = chosen
          /\ hist' = [NewRun(hist, fileExists, disk) EXCEPT
                        !.sampled = sampling,
                        !.pathSkipped = {p \in DOMAIN folder : p \in seen.paths}]
  /\ buf' = IF fileExists THEN <<>> ELSE <<HeaderLine>>
  /\ fileExists' = TRUE
  /\ idx' = 1
  /\ total_processed' = 0 /\ requests_this_minute' = 0 /\ daily_requests' = 0
  /\ minute_start' = now
  /\ pc' = "head"
  /\ runs' = runs - 1
  /\ UNCHANGED <<inputVars, faults, failures, slow, kills, disk, image_path, image_hash, now,
                 response, record>>

\* the for loop has no candidate left: the with block is left
LoopExhausted ==
  /\ pipeline = "photo" /\ pc = "head"
  /\ idx > Len(all_images)
  /\ CloseFile("exhausted")
  /\ UNCHANGED <<inputVars, faults, failures, slow, kills, runs, fileExists, progVars, now,
                 response, record>>

\* if daily_requests >= daily_limit: break
DailyLimitStop ==
  /\ pipeline = "photo" /\ pc = "head"
  /\ idx <= Len(all_images)
  /\ daily_requests >= daily_limit
  /\ CloseFile("daily")
  /\ UNCHANGED <<inputVars, faults, failures, slow, kills, runs, fileExists, progVars, now,
                 response, record>>

\* the next candidate is hashed; a hash the ledger had at the start is skipped
HashImage ==
  /\ pipeline = "photo" /\ pc = "head"
  /\ idx <= Len(all_images)
  /\ daily_requests < daily_limit
  /\ \E readable \in BOOLEAN, lat \in Latencies :
       LET p == all_images[idx]
           h == get_image_hash(p, folder[p], readable)
       IN /\ readable \/ faults > 0
          /\ faults' = IF readable THEN faults ELSE faults - 1
          /\ slow' = SlowAfter(lat)
          /\ now' = now + lat
          /\ image_path' = p
          /\ image_hash' = h
          /\ idx' = idx + 1
          /\ IF h \in processed_hashes
             THEN /\ pc' = "head"
                  /\ hist' = [hist EXCEPT !.hashSkipped = @ \cup {p},
                                          !.hashErrs = IF readable THEN @ ELSE @ \cup {p}]
             ELSE /\ pc' = "rate"
                  /\ hist' = [hist EXCEPT !.hashErrs = IF readable THEN @ ELSE @ \cup {p}]
  /\ UNCHANGED <<inputVars, failures, kills, runs, fileExists, disk, buf, processed_hashes,
                 processed_paths, all_images, total_processed, requests_this_minute,
                 daily_requests, minute_start, response, record>>

\* (mutant) the counter is not reset after the sleep
Throttle_KeepsCount ==
  LET current_time == now
      renew == current_time - minute_start >= Window
      rtm == IF renew THEN 0 ELSE requests_this_minute
      ms == IF renew THEN current_time ELSE minute_start
      wait_time == Window - (current_time - ms)
  IN IF rtm >= RateLimit
     THEN /\ now' = now + wait_time
          /\ requests_this_minute' = rtm
          /\ minute_start' = now'
          /\ hist' = [hist EXCEPT !.waits = Append(@, wait_time)]
     ELSE /\ now' = now
          /\ requests_this_minute' = rtm
          /\ minute_start' = ms
          /\ hist' = hist

\* the per-minute limit: the window is renewed after 60 s; at 14 requests the
\* driver sleeps for the rest of the window and renews it
Throttle ==
  LET current_time == now
      renew == current_time - minute_start >= Window
      rtm == IF renew THEN 0 ELSE requests_this_minute
      ms == IF renew THEN current_time ELSE minute_start
      wait_time == Window - (current_time - ms)
  IN IF rtm >= RateLimit
     THEN /\ now' = now + wait_time
          /\ requests_this_minute' = 0
          /\ minute_start' = now'
          /\ hist' = [hist EXCEPT !.waits = Append(@, wait_time)]
     ELSE /\ now' = now
          /\ requests_this_minute' = rtm
          /\ minute_start' = ms
          /\ hist' = hist

RateLimiting ==
  /\ pipeline = "photo" /\ pc = "rate"
  /\ Throttle
  /\ pc' = "call"
  /\ UNCHANGED <<inputVars, faults, failures, slow, kills, runs, fileExists, disk, buf,
                 processed_hashes, processed_paths, all_images, idx, image_path,
                 image_hash, total_processed, daily_requests, response, record>>

\* what one call of the classification client may meet: the image decodes or
\* not, the service raises or answers with a text; a failure is an
\* environment failure
CallOutcomes ==
  {o \in [decodes : BOOLEAN, raises : BOOLEAN, text : DriverResponses(pipeline)] :
     /\ (~o.decodes => ~o.raises)
     /\ (~o.decodes \/ o.raises => o.text = GoodResponse(pipeline))
     /\ (~o.decodes \/ o.raises \/ o.text # GoodResponse(pipeline) => failures > 0)}
CallFailed(o) == ~o.decodes \/ o.raises \/ o.text # GoodResponse(pipeline)

\* analyze_photo and writer.writerow; writerow raising is caught by the
\* except of the loop body, which goes on with the next candidate
Classify ==
  /\ pipeline = "photo" /\ pc = "call"
  /\ \E o \in CallOutcomes, writes \in BOOLEAN, lat \in Latencies :
       LET r == analyze_photo(o.decodes, o.raises, o.text)
       IN /\ writes \/ faults > 0
          /\ faults' = IF writes THEN faults ELSE faults - 1
          /\ failures' = IF CallFailed(o) THEN failures - 1 ELSE failures
          /\ slow' = SlowAfter(lat)
          /\ response' = o.text
          /\ record' = r
          /\ now' = now + lat
          /\ IF writes
             THEN /\ buf' = Append(buf, RowLine(image_path, image_hash, r))
                  /\ pc' = "post"
                  /\ hist' = [hist EXCEPT
                                !.calls = Append(@, [t |-> now, path |-> image_path]),
                                !.lastOutcome = o,
                                !.appended = Append(@, image_path)]
             ELSE /\ buf' = buf
                  /\ pc' = "head"
                  /\ hist' = [hist EXCEPT
                                !.calls = Append(@, [t |-> now, path |-> image_path]),
                                !.lastOutcome = o,
                                !.writeErrs = @ + 1]
  /\ UNCHANGED <<inputVars, kills, runs, fileExists, disk, progVars>>

\* the prints, the three counters, the pause and the flush every 10 images;
\* a print raising is caught by the except of the loop body
Account ==
  /\ pipeline = "photo" /\ pc = "post"
  /\ \E prints \in BOOLEAN :
       /\ prints \/ faults > 0
       /\ IF prints
          THEN /\ total_processed' = total_processed + 1
               /\ requests_this_minute' = requests_this_minute + 1
               /\ daily_requests' = daily_requests + 1
               /\ now' = now + Pause
               /\ IF total_processed' % FlushEvery = 0
                  THEN /\ disk' = disk \o buf
                       /\ buf' = <<>>
                  ELSE UNCHANGED <<disk, buf>>
               /\ faults' = faults
               /\ hist' = hist
          ELSE /\ faults' = faults - 1
               /\ hist' = [hist EXCEPT !.printErrs = @ + 1]
               /\ UNCHANGED <<total_processed, requests_this_minute, daily_requests,
                              now, disk, buf>>
  /\ pc' = "head"
  /\ UNCHANGED <<inputVars, failures, slow, kills, runs, fileExists, processed_hashes,
                 processed_paths, all_images, idx, image_path, image_hash,
                 minute_start, response, record>>

\* the process is killed during a run: the buffer is lost, except for what
\* the file object had already passed to the operating system
Kill ==
  /\ pc # "idle" /\ pc # "parse" /\ kills > 0
  /\ kills' = kills - 1
  /\ \E k \in 0..Len(buf) : disk' = disk \o SubSeq(buf, 1, k)
  /\ buf' = <<>>
  /\ pc' = "idle"
  /\ hist' = [hist EXCEPT !.stop = "killed", !.everKilled = TRUE]
  /\ UNCHANGED <<inputVars, faults, failures, slow, runs, fileExists, progVars, now,
                 response, record>>

\* the print that announces the image stands before the try of the loop
\* body: when it raises, the with block is left (the file is closed) and the
\* outer except ends the run
LoopRaises ==
  /\ pc = "call" /\ faults > 0
  /\ faults' = faults - 1
  /\ CloseFile("error")
  /\ UNCHANGED <<inputVars, failures, slow, kills, runs, fileExists, progVars, now,
                 response, record>>

PhotoNext ==
  \/ Start \/ LoopExhausted \/ DailyLimitStop \/ HashImage \/ RateLimiting
  \/ Classify \/ Account

(* ---------------- the tattoo pipeline: tattoo_classifier.process_folder ---------------- *)
\* setup, get_processed_images (paths only), open (header when the file is
\* new), the counters; the glob is iterated by the loop itself
T_Start ==
  /\ pipeline = "tattoo" /\ pc = "idle" /\ runs > 0
  /\ processed_paths' = get_processed_images(fileExists, disk).paths
  /\ processed_hashes' = {}
  /\ all_images' = Glob
  /\ hist' = NewRun(hist, fileExists, disk)
  /\ buf' = IF fileExists THEN <<>> ELSE <<HeaderLine>>
  /\ fileExists' = TRUE
  /\ idx' = 1
  /\ total_processed' = 0 /\ requests_this_minute' = 0
  /\ minute_start' = now
  /\ pc' = "head"
  /\ runs' = runs - 1
  /\ UNCHANGED <<inputVars, faults, failures, slow, kills, disk, image_path, image_hash,
                 daily_requests, now, response, record>>

T_Exhausted ==
  /\ pipeline = "tattoo" /\ pc = "head"
  /\ idx > Len(all_images)
  /\ CloseFile("exhausted")
  /\ UNCHANGED <<inputVars, faults, failures, slow, kills, runs, fileExists, progVars, now,
                 response, record>>

\* the next file of the glob; a path the ledger had at the start is skipped
T_NextImage ==
  /\ pipeline = "tattoo" /\ pc = "head"
  /\ idx <= Len(all_images)
  /\ LET p == all_images[idx]
     IN /\ image_path' = p
        /\ idx' = idx + 1
        /\ IF p \in processed_paths
           THEN /\ pc' = "head"
                /\ hist' = [hist EXCEPT !.pathSkipped = @ \cup {p}]
           ELSE /\ pc' = "rate"
                /\ hist' = hist
  /\ UNCHANGED <<inputVars, faults, failures, slow, kills, runs, fileExists, disk, buf,
                 processed_hashes, processed_paths, all_images, image_hash,
                 total_processed, requests_this_minute, daily_requests, minute_start,
                 now, response, record>>

T_RateLimiting ==
  /\ pipeline = "tattoo" /\ pc = "rate"
  /\ Throttle
  /\ pc' = "call"
  /\ UNCHANGED <<inputVars, faults, failures, slow, kills, runs, fileExists, disk, buf,
                 processed_hashes, processed_paths, all_images, idx, image_path,
                 image_hash, total_processed, daily_requests, response, record>>

\* analyze_tattoo and writer.writerow (the row has no hash column)
T_Classify ==
  /\ pipeline = "tattoo" /\ pc = "call"
  /\ \E o \in CallOutcomes, writes \in BOOLEAN, lat \in Latencies :
       LET r == analyze_tattoo(o.decodes, o.raises, o.text)
       IN /\ writes \/ faults > 0
          /\ faults' = IF writes THEN faults ELSE faults - 1
          /\ failures' = IF CallFailed(o) THEN failures - 1 ELSE failures
          /\ slow' = SlowAfter(lat)
          /\ response' = o.text
          /\ record' = r
          /\ now' = now + lat
          /\ IF writes
             THEN /\ buf' = Append(buf, RowLine(image_path, NoHash, r))
                  /\ pc' = "post"
                  /\ hist' = [hist EXCEPT
                                !.calls = Append(@, [t |-> now, path |-> image_path]),
                                !.lastOutcome = o,
                                !.appended = Append(@, image_path)]
             ELSE /\ buf' = buf
                  /\ pc' = "head"
                  /\ hist' = [hist EXCEPT
                                !.calls = Append(@, [t |-> now, path |-> image_path]),
                                !.lastOutcome = o,
                                !.writeErrs = @ + 1]
  /\ UNCHANGED <<inputVars, kills, runs, fileExists, disk, progVars>>

\* the prints, the two counters and the pause; nothing is flushed
T_Account ==
  /\ pipeline = "tattoo" /\ pc = "post"
  /\ \E prints \in BOOLEAN :
       /\ prints \/ faults > 0
       /\ IF prints
          THEN /\ total_processed' = total_processed + 1
               /\ requests_this_minute' = requests_this_minute + 1
               /\ now' = now + Pause
               /\ faults' = faults
               /\ hist' = hist
          ELSE /\ faults' = faults - 1
               /\ hist' = [hist EXCEPT !.printErrs = @ + 1]
               /\ UNCHANGED <<total_processed, requests_this_minute, now>>
  /\ pc' = "head"
  /\ UNCHANGED <<inputVars, failures, slow, kills, runs, fileExists, disk, buf,
                 processed_hashes, processed_paths, all_images, idx, image_path,
                 image_hash, daily_requests, minute_start, response, record>>

TattooNext ==
  \/ T_Start \/ T_Exhausted \/ T_NextImage \/ T_RateLimiting \/ T_Classify \/ T_Account

(* ---------------- specifications ---------------- *)
Next == SetupFails \/ LoopRaises \/ PhotoNext \/ TattooNext

\* small folders of any contents, MaxRuns runs, none of them killed
Spec == Init /\ [][Next]_vars

\* one run over CrashFiles files, for termination: the driver is one
\* sequential process, each of whose steps returns (the sleeps are finite,
\* the calls of the service are taken to return), so a step that can be
\* taken is taken
InitLive ==
  /\ pipeline \in {"photo", "tattoo"}
  /\ folder \in [1..CrashFiles -> 1..MaxPrefixes]
  /\ daily_limit \in (IF pipeline = "photo" THEN {1, DefaultDailyLimit}
                      ELSE {DefaultDailyLimit})
  /\ sample_size \in (IF pipeline = "photo" THEN {NoSample} \cup 1..MaxSample
                      ELSE {NoSample})
  /\ faults = MaxFaults /\ failures = MaxFailures /\ slow = 0 /\ kills = 0
  /\ runs = 1
  /\ \E l \in InitialLedgers(pipeline) : fileExists = l.exists /\ disk = l.lines
  /\ IdleLocals

SpecLive == InitLive /\ [][Next]_vars /\ WF_vars(Next)

\* runs that may be killed: CrashFiles files of one content, one run more
\* than in Spec, no failed classification
InitCrash ==
  /\ pipeline \in {"photo", "tattoo"}
  /\ folder = [i \in 1..CrashFiles |-> 1]
  /\ daily_limit \in (IF pipeline = "photo" THEN {1, DefaultDailyLimit}
                      ELSE {DefaultDailyLimit})
  /\ sample_size = NoSample
  /\ faults = MaxFaults /\ failures = 0 /\ slow = 0 /\ kills = MaxKills
  /\ runs = MaxRuns + 1
  /\ \E l \in {m \in InitialLedgers(pipeline) : ~m.exists \/ m.lines # <<>>} :
       fileExists = l.exists /\ disk = l.lines
  /\ IdleLocals

NextCrash == Next \/ Kill

SpecCrash == InitCrash /\ [][NextCrash]_vars

\* one run over a folder large enough for the per-minute limit and the
\* flush every 10 images: BulkFiles files of distinct content, the first of
\* which may be recorded already under another path; no classification fails
InitBulk ==
  /\ pipeline \in {"photo", "tattoo"}
  /\ folder = [i \in 1..BulkFiles |-> i]
  /\ daily_limit \in (IF pipeline = "photo" THEN {1, DefaultDailyLimit}
                      ELSE {DefaultDailyLimit})
  /\ sample_size = NoSample
  /\ faults = MaxFaults /\ failures = 0 /\ slow = MaxSlow /\ kills = 0
  /\ runs = 1
  /\ \E l \in {m \in InitialLedgers(pipeline) : ~m.exists \/ Len(m.lines) > 1} :
       fileExists = l.exists /\ disk = l.lines
  /\ IdleLocals

SpecBulk == InitBulk /\ [][Next]_vars

\* the classification client's parsing alone, over every response text of
\* at most MaxLines lines
ResponseLines(p) ==
  {<<Labels(p)[i], Values(p)[i]>> : i \in 1..Len(Labels(p))} \cup {<<"intro">>}
Responses(p) == UNION {[1..n -> ResponseLines(p)] : n \in 0..MaxLines}

InitParse ==
  /\ pipeline \in {"photo", "tattoo"}
  /\ folder = [i \in 1..1 |-> 1]
  /\ daily_limit = DefaultDailyLimit /\ sample_size = NoSample
  /\ faults = 0 /\ failures = 0 /\ slow = 0 /\ kills = 0 /\ runs = 0
  /\ fileExists = FALSE /\ disk = <<>> /\ buf = <<>>
  /\ pc = "parse"
  /\ processed_hashes = {} /\ processed_paths = {}
  /\ all_images = <<>> /\ idx = 1
  /\ image_path = 0 /\ image_hash = NoHash
  /\ total_processed = 0 /\ requests_this_minute = 0 /\ daily_requests = 0
  /\ minute_start = 0 /\ now = 0
  /\ response \in Responses(pipeline)
  /\ record = NoRecord
  /\ hist = FreshHist

ParseResponse ==
  /\ pc = "parse"
  /\ record' = Analyze(pipeline, TRUE, FALSE, response)
  /\ pc' = "parsed"
  /\ UNCHANGED <<inputVars, faults, failures, slow, kills, runs, fileExists, disk, buf,
                 progVars, now, response, hist>>

NextParse == ParseResponse

SpecParse == InitParse /\ [][NextParse]_vars

(* ---------------- properties ---------------- *)
Range(s) == {s[i] : i \in 1..Len(s)}
Ledger == disk \o buf
RunEnded == pc = "idle" /\ hist.stop \in {"exhausted", "daily"}
CalledPaths == {hist.calls[i].path : i \in 1..Len(hist.calls)}
Visited == {all_images[i] : i \in 1..(idx - 1)}
CallStep == Len(hist'.calls) = Len(hist.calls) + 1
RowHash == IF pipeline = "photo" THEN image_hash ELSE NoHash

\* no exception has been raised outside the classification client
NoException == faults = MaxFaults

\* C1: in the photo pipeline, a run that starts from a ledger whose Image
\* Hash values are pairwise distinct ends with a ledger whose Image Hash
\* values are pairwise distinct (the driver never appends two rows of the
\* same content hash).  Stated for the behaviours in which no exception
\* has been raised, which the claim covers.
C1_HashesStayDistinct ==
  (/\ pipeline = "photo" /\ RunEnded /\ NoException
   /\ Distinct(HashesSeq(hist.startLedger)))
    => Distinct(HashesSeq(disk))

\* the calls issued in the 60 seconds that start with the i-th call
CallsFrom(i) ==
  Cardinality({j \in 1..Len(hist.calls) :
                 /\ hist.calls[j].t >= hist.calls[i].t
                 /\ hist.calls[j].t < hist.calls[i].t + Window})

\* C2: in every interval [t, t+60 s) of a run at most 14 classification
\* calls are issued.  A fullest interval starts at a call, so the intervals
\* that start at a call are all that need checking.  Stated for the runs
\* in which no exception has been raised, which the claim covers: there
\* every call is counted by requests_this_minute.
C2_SlidingWindow ==
  NoException => \A i \in 1..Len(hist.calls) : CallsFrom(i) <= RateLimit

\* a run that went through its loop and returned by itself
ReturnedBy == {"exhausted", "daily"}

\* C3 (as claimed): a run that follows a run which ran to its end, on the
\* unchanged folder and with the ledger that run left, appends no row,
\* whatever daily_limit and sample_size are.  Stated for the behaviours in
\* which no exception has been raised, which the claim covers.
C3_SecondRunAppendsNothing ==
  (hist.runNo >= 2 /\ hist.prevStop \in ReturnedBy /\ NoException)
    => hist.appended = <<>>

\* C3 (amended): if the earlier run started from an absent or parseable
\* ledger, took no sample, ended by exhausting its candidates and wrote
\* every row, then the next run on the unchanged folder appends no row as
\* long as it can read every candidate for hashing.
C3_SecondRunAfterFullRun ==
  (/\ hist.runNo >= 2
   /\ hist.prevStop = "exhausted" /\ ~hist.prevSampled
   /\ hist.prevReadable /\ hist.prevWriteErrs = 0
   /\ hist.hashErrs = {})
    => hist.appended = <<>>

C3_Witness ==
  /\ hist.runNo = 2 /\ pc = "idle" /\ hist.stop = "exhausted"
  /\ hist.prevStop = "exhausted" /\ ~hist.prevSampled
  /\ hist.prevReadable /\ hist.prevWriteErrs = 0 /\ hist.hashErrs = {}
  /\ Len(RowsOf(disk)) >= MaxFiles
  /\ hist.pathSkipped # {}
  /\ hist.appended = <<>>

\* C4: the number of classification calls issued in a run of the photo
\* pipeline never exceeds daily_limit (once daily_requests has reached
\* daily_limit no call is issued).
C4_DailyCap ==
  pipeline = "photo" => Len(hist.calls) <= daily_limit

\* p is a copy of a recorded image: a file of the folder whose path no row of
\* the ledger found by the run has, and whose content hash some row has
IsCopy(p) ==
  /\ p \in DOMAIN folder
  /\ \A i \in 1..Len(hist.startLedger) : hist.startLedger[i].path # p
  /\ \E i \in 1..Len(hist.startLedger) :
       /\ hist.startLedger[i].kind = "row"
       /\ hist.startLedger[i].hash = Md5(folder[p])

\* the copy is no victim of the skip by path, is never classified and gets
\* no row; when the loop reaches it the skip by hash fires
CopyIsSkipped(p) ==
  /\ p \notin hist.pathSkipped
  /\ p \notin CalledPaths
  /\ p \notin Range(hist.appended)
  /\ (p \in Visited => p \in hist.hashSkipped)

\* C5 (as claimed): in a run of the photo pipeline no row is appended and no
\* call is issued for a copy of a recorded image; the skip by path does not
\* fire for it and the skip by hash does.
C5_CopyIsSkipped ==
  (pipeline = "photo" /\ hist.stop \in {"running", "exhausted", "daily"})
    => \A p \in DOMAIN folder : IsCopy(p) => CopyIsSkipped(p)

\* C5 (amended): the same, provided the ledger the run found can be parsed
\* and the copy can be opened and read for hashing.
C5_ReadableCopyIsSkipped ==
  (/\ pipeline = "photo" /\ hist.stop \in {"running", "exhausted", "daily"}
   /\ CsvReadable(hist.startLedger))
    => \A p \in DOMAIN folder :
         (IsCopy(p) /\ p \notin hist.hashErrs) => CopyIsSkipped(p)

C5_Witness ==
  /\ pipeline = "photo" /\ RunEnded /\ CsvReadable(hist.startLedger)
  /\ \E p \in DOMAIN folder :
       /\ IsCopy(p) /\ p \in hist.hashSkipped /\ p \notin hist.hashErrs
       /\ p \notin Range(hist.appended)
       /\ \E q \in DOMAIN folder : q \in Range(hist.appended)

\* C6 (as claimed): a classification that fails (the image does not decode,
\* the service raises, the response has too few lines) is followed by the
\* append of one row with the image's path and hash and the error
\* placeholders, and the loop goes on.
C6_FailureGetsRow ==
  [][(CallStep /\ CallFailed(hist'.lastOutcome))
       => /\ buf' = Append(buf, RowLine(image_path, RowHash, record'))
          /\ record' \in SentinelRecords(pipeline)
          /\ record'[1] = <<"Error">>
          /\ pc' = "post"]_vars

\* C6 (amended): the same unless writer.writerow itself raises; then no row
\* is appended for the image, and in either case the loop goes on with the
\* next candidate.
C6_FailureGetsRowUnlessWriteFails ==
  [][/\ (CallStep /\ CallFailed(hist'.lastOutcome))
          => /\ record' \in SentinelRecords(pipeline)
             /\ record'[1] = <<"Error">>
             /\ IF hist'.writeErrs = hist.writeErrs
                THEN /\ buf' = Append(buf, RowLine(image_path, RowHash, record'))
                     /\ pc' = "post"
                ELSE /\ buf' = buf
                     /\ pc' = "head"
     /\ (pc = "post" /\ pc' # "post" /\ hist'.stop = "running") => pc' = "head"]_vars

C6_Witness ==
  /\ pc = "post" /\ CallFailed(hist.lastOutcome)
  /\ record \in SentinelRecords(pipeline)
  /\ buf # <<>>
  /\ buf[Len(buf)] = RowLine(image_path, RowHash, record)
  /\ idx <= Len(all_images)

\* the deviations the claim names: a line is missing, the lines stand in
\* another order, a line of other text stands before the labelled lines
MissingLine(r, p) ==
  /\ Len(r) < Len(GoodResponse(p))
  /\ \E f \in [1..Len(r) -> 1..Len(GoodResponse(p))] :
       /\ \A i \in 1..Len(r) : r[i] = GoodResponse(p)[f[i]]
       /\ \A i, j \in 1..Len(r) : i < j => f[i] < f[j]
Reordered(r, p) ==
  /\ Len(r) = Len(GoodResponse(p))
  /\ Range(r) = Range(GoodResponse(p))
  /\ r # GoodResponse(p)
Preamble(r, p) == r = << <<"intro">> >> \o GoodResponse(p)
Deviates(r, p) == MissingLine(r, p) \/ Reordered(r, p) \/ Preamble(r, p)

\* the text of one labelled field stands under another attribute
Misassigned(rec, p) ==
  \E i \in 1..Len(rec), j \in 1..Len(Values(p)) : i # j /\ Values(p)[j] \in Range(rec[i])

\* C7: for a response that deviates from the format the client returns the
\* sentinel error record, and never a record with the text of one labelled
\* field under another attribute.
C7_DeviationIsAnError ==
  (pc = "parsed" /\ Deviates(response, pipeline))
    => (record \in SentinelRecords(pipeline) /\ ~Misassigned(record, pipeline))

RowsOnDiskThisRun == Len(RowsOf(disk)) - Len(RowsOf(hist.startLedger))

\* C8: during a run at most 10 appended rows are not yet flushed: after the
\* n-th append at least 10*floor((n-1)/10) rows of the run are on disk.
\* Stated for the runs in which no exception has been raised, which the
\* claim covers.
C8_AtMostOneBatchUnflushed ==
  (hist.stop = "running" /\ Len(hist.appended) >= 1 /\ NoException)
    => /\ Len(RowsOf(buf)) <= FlushEvery
       /\ RowsOnDiskThisRun >= FlushEvery * ((Len(hist.appended) - 1) \div FlushEvery)

\* C9: whatever runs are killed, and wherever, a ledger that was absent or
\* parseable with distinct paths before the first run never holds two rows
\* of the same image (stated for the path, the weaker half of "same path or
\* same hash"), and for the behaviours in which nothing but the kill went
\* wrong.
C9_NoDuplicateAfterKill ==
  (hist.initOK /\ NoException) => Distinct(PathsSeq(Ledger))

\* C10: after any sequence of runs that were not killed, starting from a
\* ledger that is absent or parseable with pairwise distinct Image Path
\* values, no two rows of the ledger have the same Image Path.
C10_PathsDistinct ==
  (hist.initOK /\ ~hist.everKilled) => Distinct(PathsSeq(Ledger))

C10_Witness ==
  /\ hist.initOK /\ ~hist.everKilled
  /\ hist.runNo >= 2 /\ hist.prevSampled
  /\ hist.pathSkipped # {}
  /\ hist.appended # <<>>
  /\ pc = "idle"

\* the ledger the run found has a row with the path of p or with the hash of
\* its content
InLedger(p) ==
  \E i \in 1..Len(hist.startLedger) :
    /\ hist.startLedger[i].kind = "row"
    /\ \/ hist.startLedger[i].path = p
       \/ hist.startLedger[i].hash = Md5(folder[p])

\* the discovered files that are to be skipped neither by path nor by hash
Unskipped == {p \in DOMAIN folder : ~InLedger(p)}
Occurrences(seq, x) == Cardinality({i \in 1..Len(seq) : seq[i] = x})
Exhausted == pc = "idle" /\ hist.stop = "exhausted"

SetupStep == hist'.runNo = hist.runNo + 1 /\ hist'.stop = "setup"

\* C12: when setup_gemini raises, the run is over at once: the ledger file
\* is neither created nor written (its existence and its content are what
\* they were), nothing is buffered for it, no candidate list is built and
\* no classification call is issued.
C12_SetupErrorTouchesNothing ==
  [][SetupStep =>
       /\ UNCHANGED <<fileExists, disk, buf, progVars, response, record>>
       /\ pc' = "idle"
       /\ hist'.calls = <<>> /\ hist'.appended = <<>>
       /\ hist'.pathSkipped = {} /\ hist'.hashSkipped = {}]_vars

C12_Witness ==
  /\ hist.stop = "setup" /\ hist.setupFailed
  /\ ~fileExists /\ disk = <<>> /\ buf = <<>>
  /\ all_images = <<>>
  /\ DOMAIN folder # {}

IsPrefix(a, b) == Len(a) <= Len(b) /\ SubSeq(b, 1, Len(a)) = a

\* C13: the lines the ledger file held when a run started are, in the same
\* order and unchanged, the first lines of the file at every later point of
\* the run, and every step only adds lines at the end of the file; this
\* holds also when the ledger could not be parsed.
C13_AppendOnly ==
  [][/\ IsPrefix(disk, disk')
     /\ (hist'.runNo >= 1 => IsPrefix(hist'.startLedger, disk'))]_vars

C13_Witness ==
  /\ hist.runNo = 2 /\ pc = "idle"
  /\ ~CsvReadable(hist.startLedger) /\ RowsOf(hist.startLedger) # <<>>
  /\ hist.appended # <<>>
  /\ Len(disk) > Len(hist.startLedger)

\* the content of the image recorded under path 0 in the initial ledgers
\* (the photo ledger holds its hash, the tattoo ledger has no such column)
RecordedContent ==
  CHOOSE c \in 1..MaxPrefixes :
    \E l \in InitialLedgers("photo") :
      \E i \in 1..Len(l.lines) : l.lines[i].hash = Md5(c)

\* the contents of the images that have a row in the ledger the run found
StartContents ==
  {IF hist.startLedger[i].path \in DOMAIN folder
   THEN folder[hist.startLedger[i].path] ELSE RecordedContent :
     i \in {j \in 1..Len(hist.startLedger) : hist.startLedger[j].kind = "row"}}

\* C14: both pipelines are the same driver: in a run in which nothing
\* raises, on a ledger that is absent or parseable, a file with the content
\* of an image that has a row in the ledger is not classified (skip by
\* content hash), and whenever total_processed has passed a multiple of 10
\* that many rows of the run are on disk (flush every 10 images).
C14_SameStateMachine ==
  (/\ hist.stop = "running" /\ NoException
   /\ (~hist.startExists \/ CsvReadable(hist.startLedger)))
    => /\ \A p \in CalledPaths : folder[p] \notin StartContents
       /\ RowsOnDiskThisRun >= FlushEvery * (total_processed \div FlushEvery)

\* C15: at every loop head of a run of the photo pipeline the per-day
\* counter equals the number of classification calls issued so far in the
\* run, also after an iteration in which writerow or a print raised.
C15_CountersFollowCalls ==
  (pipeline = "photo" /\ pc = "head") => daily_requests = Len(hist.calls)

Headers(lines) == SelectSeq(lines, LAMBDA l : l.kind = "header")

\* C16: whatever runs were killed, after a run that returned by itself the
\* ledger file holds exactly one header and it is the first line of the
\* file, provided the ledger was absent or parseable before the first run.
\* Stated for the behaviours in which nothing but the kill went wrong.
C16_OneHeaderFirst ==
  (RunEnded /\ hist.initOK /\ NoException)
    => (Len(Headers(disk)) = 1 /\ disk[1].kind = "header")

StopReasons == {"exhausted", "daily", "setup"}

\* C17: every run reaches a stopped state; the reason is that the candidates
\* are exhausted, that the daily limit is reached, or a setup error, the
\* last before any image was processed; no candidate is attempted twice in
\* a run; every enforced wait is finite (at most one window).
C17_RunStopsForOneOfThreeReasons ==
  /\ [](/\ (pc = "idle" /\ hist.runNo >= 1) => hist.stop \in StopReasons
        /\ hist.stop = "setup" => (hist.calls = <<>> /\ hist.appended = <<>>)
        /\ Distinct([i \in 1..Len(hist.calls) |-> hist.calls[i].path])
        /\ \A i \in 1..Len(hist.waits) : hist.waits[i] \in 0..Window)
  /\ (pc # "idle" ~> pc = "idle")

\* a step in which the driver sleeps for the per-minute limit
BlockStep == Len(hist'.waits) = Len(hist.waits) + 1

\* C18: the driver blocks only with the per-minute counter at 14; the wait
\* is more than 0 and at most 60 seconds and ends no earlier than 60
\* seconds after the start of the window; on resuming the counter is 0 and
\* the window starts at the resume time; the counter is always in 0..14.
C18_WaitWithinWindow ==
  /\ [](requests_this_minute \in 0..RateLimit)
  /\ [][BlockStep =>
          /\ requests_this_minute >= RateLimit
          /\ hist'.waits[Len(hist'.waits)] > 0
          /\ hist'.waits[Len(hist'.waits)] <= Window
          /\ now' = now + hist'.waits[Len(hist'.waits)]
          /\ now' >= minute_start + Window
          /\ requests_this_minute' = 0
          /\ minute_start' = now']_vars

\* the driver has just resumed from the shortest wait there is
C18_Witness ==
  /\ pc = "call" /\ hist.waits = <<1>>
  /\ Len(hist.calls) = RateLimit
  /\ requests_this_minute = 0 /\ minute_start = now
  /\ now >= Window

\* the run found a ledger file that cannot be parsed
Unparseable == hist.startExists /\ ~CsvReadable(hist.startLedger)

\* C19 (as claimed): a run that finds a ledger it cannot parse reads empty
\* sets from it and goes on; every discovered image gets its row, appended
\* to the same file, whose lines are kept.  Stated for the runs that
\* returned by themselves and in which no exception has been raised.
C19_EveryImageReappended ==
  (RunEnded /\ Unparseable /\ NoException)
    => /\ processed_hashes = {} /\ processed_paths = {}
       /\ \A p \in DOMAIN folder : Occurrences(hist.appended, p) = 1
       /\ IsPrefix(hist.startLedger, disk)

\* C19 (amended): such a run reads empty sets and goes on; no image is
\* skipped by path or by hash; the candidates are all the discovered images,
\* or the random sample taken of them; the lines of the file are kept; and a
\* run that exhausts its candidates has appended one row for each of them,
\* in their order, unless a writerow raised.
C19_UnparseableLedgerSkipsNothing ==
  (Unparseable /\ hist.stop \in {"running", "exhausted", "daily", "error"})
    => /\ processed_hashes = {} /\ processed_paths = {}
       /\ hist.pathSkipped = {} /\ hist.hashSkipped = {}
       /\ IF hist.sampled
          THEN Len(all_images) = sample_size /\ Range(all_images) \subseteq Range(Glob)
          ELSE all_images = Glob
       /\ IsPrefix(hist.startLedger, disk)
       /\ (Exhausted /\ hist.writeErrs = 0) => hist.appended = all_images

C19_Witness ==
  /\ Unparseable /\ Exhausted
  /\ RowsOf(hist.startLedger) # <<>>
  /\ hist.appended = all_images /\ Len(all_images) = MaxFiles
  /\ ~Distinct(PathsSeq(disk))

====
